---- MODULE Spec2Model ----
(***************************************************************************)
(* cache2go: a CacheTable (items map, RWMutex, cleanup timer, callback     *)
(* lists), its CacheItems (each with its own RWMutex) and the table        *)
(* registry Cache(name).                                                   *)
(*                                                                         *)
(* Granularity.  A step is one critical section of the table's RWMutex    *)
(* (from Lock/RLock to the next Unlock/RUnlock) or one invocation of a     *)
(* user callback.  tableLock is the holder of the write lock after the    *)
(* step; the sweep keeps it across steps while it ranges over the map.     *)
(* Time is a discrete clock; a timer may fire at any time at or after its  *)
(* deadline.                                                               *)
(***************************************************************************)
EXTENDS Integers, Sequences, FiniteSets, TLC

\* ---------------------------------------------------------------- bounds
MaxTime == 2
MaxCalls == 2
MaxItems == 3
MaxTimers == 3
MaxCount == 2

Keys == {"k1", "k2"}
LifeSpans == {0, 1}
Callers == {"u1", "u2", "u3"}
Users == {"u1", "u2"}
Sweepers == {"g1"}
Threads == Callers \cup Sweepers
Callbacks == {"f"}
Fns == {"f", "g"}
Names == {"a", "b"}

ItemIds == 1..MaxItems
TimerIds == 1..MaxTimers

\* ------------------------------------------------------------- constants
NoItem == 0
NoTimer == 0
NoTable == 0
Free == "free"
NoKey == "nokey"
ErrNil == "nil"
ErrKeyNotFound == "ErrKeyNotFound"
ErrKeyNotFoundOrLoadable == "ErrKeyNotFoundOrLoadable"

VARIABLES
    clock,              \* time.Now()
    items,              \* table.items: key -> item (NoItem: no entry)
    item,               \* the CacheItem objects ever allocated
    nItems,             \* number of CacheItem objects allocated
    budget,             \* calls of public operations the callers still make
    itemReaders,        \* per item: the threads holding its RWMutex for reading
    tableLock,          \* holder of table.RWMutex for writing, or Free
    cleanupInterval,    \* table.cleanupInterval
    cleanupTimer,       \* table.cleanupTimer (NoTimer: nil)
    timers,             \* per timer object: its deadline, or -1 when not armed
    loadData,           \* table.loadData is set
    addedItem,          \* table.addedItem
    aboutToDeleteItem,  \* table.aboutToDeleteItem
    th,                 \* per goroutine: position and locals
    hist,               \* per item: the callbacks invoked with it so far, and
                        \* whether its last KeepAlive came in time
    fate,               \* per item: how it left table.items, if it did
    cache,              \* registry: table name -> CacheTable (NoTable: none)
    tables,             \* the CacheTable objects ever created: their names
    rth                 \* per goroutine in Cache(name): position and locals

tableVars == <<items, item, nItems, itemReaders, tableLock, cleanupInterval,
               cleanupTimer, timers, loadData, addedItem, aboutToDeleteItem,
               hist, fate>>
registryVars == <<cache, tables, rth>>
vars == <<clock, budget, tableVars, th, registryVars>>

\* ----------------------------------------------------------- CacheItem
NoCacheItem ==
    [key |-> NoKey, lifeSpan |-> 0, accessedOn |-> 0, accessCount |-> 0,
     aboutToExpire |-> <<>>]

NewCacheItem(key, lifeSpan, t) ==
    [key |-> key, lifeSpan |-> lifeSpan, accessedOn |-> t, accessCount |-> 0,
     aboutToExpire |-> <<>>]

KeepAlive(it, t) ==
    [it EXCEPT !.accessedOn = t, !.accessCount = @ + 1]

\* now.Sub(accessedOn) > lifeSpan
Expired(now, it) == now - it.accessedOn > it.lifeSpan

\* lifeSpan - now.Sub(accessedOn)
Remaining(now, it) == it.lifeSpan - (now - it.accessedOn)

\* at time t the lifeSpan of the item has not elapsed since its last access
InTime(it, t) == it.lifeSpan = 0 \/ t - it.accessedOn < it.lifeSpan

\* smallestDuration after an unexpired item with `rem` left
NextSmallest(smallest, rem) ==
    IF smallest = 0 \/ rem < smallest THEN rem ELSE smallest

\* --------------------------------------------------------- goroutines
NoRet == [item |-> NoItem, err |-> "none", ok |-> FALSE]

Idle ==
    [pc |-> "idle", op |-> "none", key |-> NoKey, d |-> 0, item |-> NoItem,
     loaded |-> NoItem, expDur |-> 0, cbs |-> <<>>,
     r |-> NoItem, dkey |-> NoKey,
     insweep |-> FALSE, now |-> 0, smallest |-> 0,
     todo |-> {}, fresh |-> {}, detached |-> FALSE,
     old |-> [k \in Keys |-> NoItem],
     nest |-> NoItem, from |-> "none", count |-> 0, list |-> <<>>,
     acc |-> 0, tg |-> NoItem, f |-> "none",
     ret |-> NoRet]

\* goroutine t is between two calls and makes one more
Ready(t) == th[t].pc = "idle" /\ budget > 0

\* the table is set up while it is empty and no goroutine is inside it
Setup == nItems = 0 /\ \A t \in Threads : th[t].pc = "idle"

\* _, ok := table.items[key]
KeyPresent(k) == items[k] # NoItem

\* a NotFoundAdd that takes every key for absent
NotFoundAddNoCheck(k) == FALSE

\* NotFoundAdd: if _, ok = table.items[key]; ok
NotFoundAddFound(k) == KeyPresent(k)

\* the item a loader returns: a CacheItem that table.items never holds
LoadedItem == 0 - 1

\* return of a public operation: the goroutine keeps only what it returned
Finish(rec, ret) ==
    [Idle EXCEPT !.pc = "done", !.op = rec.op, !.key = rec.key, !.ret = ret]

\* ------------------------------------------- range over table.items
\* A sweep that has released the lock inside deleteInternal is in the
\* middle of `for key, item := range table.items`.  todo: entries not yet
\* reached, which the loop must still produce; fresh: entries created
\* during the loop, which it may produce or skip.  Flush replaces
\* table.items by a new map, and the loop goes on over the old one (old).
IterInsert(rec, k) ==
    IF rec.insweep /\ ~rec.detached
    THEN [rec EXCEPT !.fresh = @ \cup {k}]
    ELSE rec

IterDelete(rec, k) ==
    IF rec.insweep /\ ~rec.detached
    THEN [rec EXCEPT !.todo = @ \ {k}, !.fresh = @ \ {k}]
    ELSE rec

IterFlush(rec) ==
    IF rec.insweep /\ ~rec.detached
    THEN [rec EXCEPT !.detached = TRUE,
                     !.old = [k \in Keys |->
                                IF k \in rec.todo \cup rec.fresh
                                THEN items[k] ELSE NoItem]]
    ELSE rec

IterVisited(rec, k) ==
    [rec EXCEPT !.todo = @ \ {k}, !.fresh = @ \ {k}, !.old[k] = NoItem]

IterEnd(rec) ==
    [rec EXCEPT !.insweep = FALSE, !.now = 0, !.smallest = 0, !.todo = {},
                !.fresh = {}, !.detached = FALSE,
                !.old = [k \in Keys |-> NoItem]]

\* ------------------------------------------------------------ timers
Armed(tm) == timers[tm] >= 0

\* a deadline past the horizon of the clock never comes
Deadline(t) == IF t > MaxTime THEN MaxTime + 1 ELSE t

\* table.cleanupTimer.Stop(), when cleanupTimer is not nil
StopTimer(tm, ts) == IF tm # NoTimer THEN [ts EXCEPT ![tm] = 0 - 1] ELSE ts

UnusedTimers(ts) == {tm \in TimerIds : ts[tm] < 0}

NewTimer(ts) == CHOOSE tm \in UnusedTimers(ts) : \A o \in UnusedTimers(ts) : tm <= o

\* time.AfterFunc(d, ...)
AfterFunc(ts, d) == [ts EXCEPT ![NewTimer(ts)] = Deadline(clock + d)]

\* ------------------------------------------------- control: Add family
\* what Add, NotFoundAdd or Value return once addInternal has returned
AddReturn(rec) ==
    CASE rec.op = "Add" ->
           Finish(rec, [item |-> rec.item, err |-> ErrNil, ok |-> TRUE])
      [] rec.op = "NotFoundAdd" ->
           Finish(rec, [item |-> NoItem, err |-> ErrNil, ok |-> TRUE])
      [] rec.op = "Value" ->
           Finish(rec, [item |-> rec.loaded, err |-> ErrNil, ok |-> TRUE])

\* (item.lifeSpan > 0) && (expDur == 0 || item.lifeSpan < expDur)
TriggersCheck(lifeSpan, expDur) ==
    lifeSpan > 0 /\ (expDur = 0 \/ lifeSpan < expDur)

\* addInternal once the addedItem callbacks have run
AfterAddCallbacks(rec) ==
    IF TriggersCheck(rec.d, rec.expDur)
    THEN [rec EXCEPT !.pc = "sw_start", !.cbs = <<>>]
    ELSE AddReturn(rec)

\* table.RWMutex.Unlock() in addInternal, called by goroutine t
addInternalUnlock(t) == Free

\* ----------------------------------------------- control: deleteInternal
\* r.RWMutex.RLock(); the aboutToExpire callbacks; r.RWMutex.RUnlock()
ExpirePhase(rec) ==
    IF item[rec.r].aboutToExpire # <<>>
    THEN [rec EXCEPT !.pc = "del_exp", !.cbs = item[rec.r].aboutToExpire]
    ELSE [rec EXCEPT !.pc = "del_relock", !.cbs = <<>>]

\* deleteInternal found the key: snapshot of aboutToDeleteItem, then callbacks
deleteInternalFound(rec, k) ==
    LET r0 == [rec EXCEPT !.r = items[k], !.dkey = k,
                          !.cbs = aboutToDeleteItem, !.pc = "del_cb"]
    IN  IF aboutToDeleteItem # <<>> THEN r0 ELSE ExpirePhase(r0)

\* return nil, ErrKeyNotFound
deleteInternalMissing == [item |-> NoItem, err |-> ErrKeyNotFound, ok |-> FALSE]

\* a deleteInternal that runs its callbacks without its Unlock
deleteInternalKeepsLock(t) == t

\* table.RWMutex.Unlock() in deleteInternal, called by goroutine t
deleteInternalUnlock(t) == Free

\* a Delete without its deferred Unlock
DeleteKeepsLock(t) == t

\* the deferred table.Unlock() of Delete, called by goroutine t
DeleteDeferredUnlock(t) == Free

\* the item read locks after goroutine t has moved to rec: t holds r's
\* read lock exactly while it runs r's aboutToExpire callbacks
ReadersAfter(t, rec) ==
    [i \in ItemIds |->
        IF i = rec.r /\ (rec.pc = "del_exp"
                         \/ (rec.pc = "cb_ka" /\ rec.from = "del_exp"))
        THEN itemReaders[i] \cup {t}
        ELSE itemReaders[i] \ {t}]

\* --------------------------------------------------- control: callbacks
InCallback(rec) == rec.pc \in {"add_cb", "del_cb", "del_exp"}

\* the item a callback is invoked for
CallbackItem(rec) == IF rec.pc = "add_cb" THEN rec.item ELSE rec.r

\* the key of that item
CallbackKey(rec) == IF rec.pc = "add_cb" THEN rec.key ELSE rec.dkey

Fire(rec) ==
    [hist EXCEPT ![CallbackItem(rec)] =
        CASE rec.pc = "add_cb"  -> [@ EXCEPT !.add = @ + 1]
          [] rec.pc = "del_cb"  -> [@ EXCEPT !.del = @ + 1]
          [] rec.pc = "del_exp" -> [@ EXCEPT !.exp = @ + 1]]

\* the callback at the head of cbs has returned: the next one, or the rest
\* of addInternal / deleteInternal
AfterCallback(rec) ==
    LET r1 == [rec EXCEPT !.cbs = Tail(rec.cbs), !.nest = NoItem,
                          !.from = "none"]
    IN  IF r1.cbs # <<>> THEN r1
        ELSE CASE rec.pc = "add_cb"  -> AfterAddCallbacks(r1)
               [] rec.pc = "del_cb"  -> ExpirePhase(r1)
               [] rec.pc = "del_exp" -> [r1 EXCEPT !.pc = "del_relock"]

\* ------------------------------------------------------------- actions
\* Lock (by the caller) and addInternal up to its Unlock: insert, snapshot
\* of cleanupInterval and addedItem
Insert(t, rec, k, d) ==
    LET i == nItems + 1
        r0 == [rec EXCEPT !.key = k, !.d = d, !.item = i,
                          !.expDur = cleanupInterval, !.cbs = addedItem,
                          !.pc = "add_cb"]
        next == IF addedItem # <<>> THEN r0 ELSE AfterAddCallbacks(r0)
    IN  /\ tableLock = Free
        /\ nItems < MaxItems
        /\ nItems' = i
        /\ item' = [item EXCEPT ![i] = NewCacheItem(k, d, clock)]
        /\ items' = [items EXCEPT ![k] = i]
        /\ fate' = [j \in ItemIds |->
                      IF j = i THEN "stored"
                      ELSE IF j = items[k] THEN "replaced" ELSE fate[j]]
        /\ tableLock' = addInternalUnlock(t)
        /\ th' = [u \in Threads |->
                    IF u = t THEN next
                    ELSE IF KeyPresent(k) THEN th[u] ELSE IterInsert(th[u], k)]
        /\ UNCHANGED <<clock, itemReaders, cleanupInterval, cleanupTimer,
                       timers, loadData, addedItem, aboutToDeleteItem, hist,
                       registryVars>>

Add(t, k, d) ==
    /\ Ready(t)
    /\ budget' = budget - 1
    /\ Insert(t, [Idle EXCEPT !.op = "Add"], k, d)

NotFoundAdd(t, k, d) ==
    /\ Ready(t)
    /\ tableLock = Free
    /\ budget' = budget - 1
    /\ IF NotFoundAddFound(k)
       THEN /\ th' = [th EXCEPT ![t] =
                        Finish([Idle EXCEPT !.op = "NotFoundAdd", !.key = k],
                               [item |-> NoItem, err |-> ErrNil, ok |-> FALSE])]
            /\ UNCHANGED <<clock, tableVars, registryVars>>
       ELSE Insert(t, [Idle EXCEPT !.op = "NotFoundAdd"], k, d)

\* an addedItem, aboutToDeleteItem or aboutToExpire callback runs and returns
CallbackReturns(t) ==
    LET next == AfterCallback(th[t])
    IN  /\ InCallback(th[t])
        /\ hist' = Fire(th[t])
        /\ th' = [th EXCEPT ![t] = next]
        /\ itemReaders' = ReadersAfter(t, next)
        /\ UNCHANGED <<clock, budget, items, item, nItems, tableLock, cleanupInterval,
                       cleanupTimer, timers, loadData, addedItem,
                       aboutToDeleteItem, fate, registryVars>>

\* such a callback calls table.Value(key) for the key of its item, which is
\* in the table: RLock, lookup, RUnlock; r.KeepAlive() is still to come
CallbackCallsValue(t) ==
    LET k == CallbackKey(th[t])
        next == [th[t] EXCEPT !.pc = "cb_ka", !.nest = items[k],
                              !.from = th[t].pc]
    IN  /\ InCallback(th[t])
        /\ tableLock = Free
        /\ KeyPresent(k)
        /\ hist' = Fire(th[t])
        /\ th' = [th EXCEPT ![t] = next]
        /\ itemReaders' = ReadersAfter(t, next)
        /\ UNCHANGED <<clock, budget, items, item, nItems, tableLock, cleanupInterval,
                       cleanupTimer, timers, loadData, addedItem,
                       aboutToDeleteItem, fate, registryVars>>

\* item.Lock() needs the item's RWMutex free of readers
CanLockItem(i) == itemReaders[i] = {}

\* r.KeepAlive() of that Value; Value and then the callback return
CallbackKeepAlive(t) ==
    LET next == AfterCallback([th[t] EXCEPT !.pc = th[t].from])
    IN  /\ th[t].pc = "cb_ka"
        /\ CanLockItem(th[t].nest)
        /\ item' = [item EXCEPT ![th[t].nest] = KeepAlive(@, clock)]
        /\ hist' = [hist EXCEPT ![th[t].nest].timely =
                                InTime(item[th[t].nest], clock),
                                ![th[t].nest].hits = @ + 1]
        /\ th' = [th EXCEPT ![t] = next]
        /\ itemReaders' = ReadersAfter(t, next)
        /\ UNCHANGED <<clock, budget, items, nItems, tableLock, cleanupInterval,
                       cleanupTimer, timers, loadData, addedItem,
                       aboutToDeleteItem, fate, registryVars>>

\* expirationCheck: Lock, stop the timer, now := time.Now(), start of the range
SweepStart(t) ==
    /\ th[t].pc = "sw_start"
    /\ tableLock = Free
    /\ tableLock' = t
    /\ timers' = StopTimer(cleanupTimer, timers)
    /\ th' = [th EXCEPT ![t] =
                [@ EXCEPT !.pc = "sw_scan", !.insweep = TRUE, !.now = clock,
                          !.smallest = 0,
                          !.todo = {k \in Keys : KeyPresent(k)},
                          !.fresh = {}]]
    /\ UNCHANGED <<clock, budget, items, item, nItems, itemReaders, cleanupInterval,
                   cleanupTimer, loadData, addedItem, aboutToDeleteItem,
                   hist, fate, registryVars>>

\* the item the range produces for key k
Produced(rec, k) == IF rec.detached THEN rec.old[k] ELSE items[k]

\* one iteration of the range: key k and its item
SweepVisit(t, k) ==
    LET rec == th[t]
        it == item[Produced(rec, k)]
        seen == IterVisited(rec, k)
    IN  /\ rec.pc = "sw_scan"
        /\ k \in rec.todo \cup rec.fresh
        /\ IF it.lifeSpan # 0 /\ Expired(rec.now, it) /\ KeyPresent(k)
           THEN \* table.deleteInternal(key), the key found
                LET next == deleteInternalFound(seen, k)
                IN  /\ th' = [th EXCEPT ![t] = next]
                    /\ tableLock' = deleteInternalUnlock(t)
                    /\ itemReaders' = ReadersAfter(t, next)
           ELSE /\ th' = [th EXCEPT ![t] =
                            IF it.lifeSpan = 0 \/ Expired(rec.now, it)
                            THEN seen
                            ELSE [seen EXCEPT !.smallest =
                                    NextSmallest(@, Remaining(rec.now, it))]]
                /\ UNCHANGED <<tableLock, itemReaders>>
        /\ UNCHANGED <<clock, budget, items, item, nItems, cleanupInterval,
                       cleanupTimer, timers, loadData, addedItem,
                       aboutToDeleteItem, hist, fate, registryVars>>

\* end of expirationCheck: cleanupInterval, the next timer, Unlock
SweepFinish(t) ==
    LET rec == th[t]
    IN  /\ rec.pc = "sw_scan"
        /\ rec.todo = {}
        /\ cleanupInterval' = rec.smallest
        /\ IF rec.smallest > 0
           THEN /\ UnusedTimers(timers) # {}
                /\ timers' = AfterFunc(timers, rec.smallest)
                /\ cleanupTimer' = NewTimer(timers)
           ELSE UNCHANGED <<timers, cleanupTimer>>
        /\ tableLock' = Free
        /\ th' = [th EXCEPT ![t] =
                    IF rec.op = "Sweep" THEN Idle ELSE AddReturn(IterEnd(rec))]
        /\ UNCHANGED <<clock, budget, items, item, nItems, itemReaders, loadData,
                       addedItem, aboutToDeleteItem, hist, fate, registryVars>>

\* the timer's function: go table.expirationCheck()
TimerFires(tm, g) ==
    /\ Armed(tm)
    /\ timers[tm] <= clock
    /\ th[g].pc = "idle"
    /\ timers' = [timers EXCEPT ![tm] = 0 - 1]
    /\ th' = [th EXCEPT ![g] = [Idle EXCEPT !.pc = "sw_start", !.op = "Sweep"]]
    /\ UNCHANGED <<clock, budget, items, item, nItems, itemReaders, tableLock,
                   cleanupInterval, cleanupTimer, loadData, addedItem,
                   aboutToDeleteItem, hist, fate, registryVars>>

\* Delete: Lock, deleteInternal up to its Unlock or its error return
Delete(t, k) ==
    LET rec == [Idle EXCEPT !.op = "Delete", !.key = k]
    IN  /\ Ready(t)
        /\ tableLock = Free
        /\ budget' = budget - 1
        /\ IF KeyPresent(k)
           THEN LET next == deleteInternalFound(rec, k)
                IN  /\ th' = [th EXCEPT ![t] = next]
                    /\ tableLock' = deleteInternalUnlock(t)
                    /\ itemReaders' = ReadersAfter(t, next)
           ELSE /\ th' = [th EXCEPT ![t] = Finish(rec, deleteInternalMissing)]
                /\ tableLock' = DeleteDeferredUnlock(t)
                /\ UNCHANGED itemReaders
        /\ UNCHANGED <<clock, items, item, nItems, cleanupInterval,
                       cleanupTimer, timers, loadData, addedItem,
                       aboutToDeleteItem, hist, fate, registryVars>>

\* deleteInternal after its callbacks: Lock, delete(table.items, key), return
DeleteRelock(t) ==
    LET rec == th[t]
        k == rec.dkey
        gone == items[k]
    IN  /\ rec.pc = "del_relock"
        /\ tableLock = Free
        /\ items' = [items EXCEPT ![k] = NoItem]
        /\ fate' = [j \in ItemIds |->
                      IF j = gone
                      THEN (IF rec.insweep THEN "swept" ELSE "deleted")
                      ELSE fate[j]]
        /\ tableLock' = IF rec.insweep THEN t ELSE DeleteDeferredUnlock(t)
        /\ th' = [u \in Threads |->
                    IF u = t
                    THEN IF rec.insweep
                         THEN IterDelete([rec EXCEPT !.pc = "sw_scan",
                                                     !.r = NoItem,
                                                     !.dkey = NoKey], k)
                         ELSE Finish(rec, [item |-> rec.r, err |-> ErrNil,
                                           ok |-> TRUE])
                    ELSE IF KeyPresent(k) THEN IterDelete(th[u], k) ELSE th[u]]
        /\ UNCHANGED <<clock, budget, item, nItems, itemReaders, cleanupInterval,
                       cleanupTimer, timers, loadData, addedItem,
                       aboutToDeleteItem, hist, registryVars>>

\* Flush, under the write lock from start to end
Flush(t) ==
    /\ Ready(t)
    /\ tableLock = Free
    /\ budget' = budget - 1
    /\ items' = [k \in Keys |-> NoItem]
    /\ cleanupInterval' = 0
    /\ timers' = StopTimer(cleanupTimer, timers)
    /\ fate' = [j \in ItemIds |->
                  IF \E k \in Keys : items[k] = j THEN "flushed" ELSE fate[j]]
    /\ th' = [u \in Threads |->
                IF u = t
                THEN Finish([Idle EXCEPT !.op = "Flush"], NoRet)
                ELSE IterFlush(th[u])]
    /\ UNCHANGED <<clock, item, nItems, itemReaders, tableLock, cleanupTimer,
                   loadData, addedItem, aboutToDeleteItem, hist, registryVars>>

\* a Value whose misses all fail with ErrKeyNotFound
ValueMissNotFound(loader) == ErrKeyNotFound

\* the error of a Value that misses: return nil, ErrKeyNotFoundOrLoadable
\* after the loader returned nil, return nil, ErrKeyNotFound without loader
ValueMissErr(loader) ==
    IF loader THEN ErrKeyNotFoundOrLoadable ELSE ErrKeyNotFound

\* Value: RLock, lookup, snapshot of loadData, RUnlock
Value(t, k) ==
    LET rec == [Idle EXCEPT !.op = "Value", !.key = k]
    IN  /\ Ready(t)
        /\ tableLock = Free
        /\ budget' = budget - 1
        /\ th' = [th EXCEPT ![t] =
                    IF KeyPresent(k)
                    THEN [rec EXCEPT !.pc = "val_ka", !.item = items[k]]
                    ELSE IF loadData
                         THEN [rec EXCEPT !.pc = "val_load"]
                         ELSE Finish(rec, [item |-> NoItem,
                                           err |-> ValueMissErr(FALSE),
                                           ok |-> FALSE])]
        /\ UNCHANGED <<clock, tableVars, registryVars>>

\* the hit: r.KeepAlive(); return r, nil
ValueKeepAlive(t) ==
    LET rec == th[t]
    IN  /\ rec.pc = "val_ka"
        /\ CanLockItem(rec.item)
        /\ item' = [item EXCEPT ![rec.item] = KeepAlive(@, clock)]
        /\ hist' = [hist EXCEPT ![rec.item].timely =
                                InTime(item[rec.item], clock),
                                ![rec.item].hits = @ + 1]
        /\ th' = [th EXCEPT ![t] =
                    Finish(rec, [item |-> rec.item, err |-> ErrNil,
                                 ok |-> TRUE])]
        /\ UNCHANGED <<clock, budget, items, nItems, itemReaders, tableLock,
                       cleanupInterval, cleanupTimer, timers, loadData,
                       addedItem, aboutToDeleteItem, fate, registryVars>>

\* KeepAlive step by step.  The goroutines between item.Lock() and the
\* deferred item.Unlock() of KeepAlive for item i
Writers(i) ==
    {t \in Threads : th[t].pc \in {"ka_read", "ka_store"} /\ th[t].item = i}

\* an item lock that excludes nobody
ItemLockIgnored(i) == TRUE

\* item.Lock() in KeepAlive: no reader and no other writer holds the lock
KeepAliveCanLock(i) == CanLockItem(i) /\ Writers(i) = {}

\* item.Lock()
KeepAliveLock(t) ==
    /\ th[t].pc = "val_ka"
    /\ KeepAliveCanLock(th[t].item)
    /\ th' = [th EXCEPT ![t] = [@ EXCEPT !.pc = "ka_read"]]
    /\ UNCHANGED <<clock, budget, tableVars, registryVars>>

\* item.accessedOn = time.Now(); the load of item.accessCount++
KeepAliveRead(t) ==
    LET i == th[t].item
    IN  /\ th[t].pc = "ka_read"
        /\ item' = [item EXCEPT ![i].accessedOn = clock]
        /\ hist' = [hist EXCEPT ![i].timely = InTime(item[i], clock)]
        /\ th' = [th EXCEPT ![t] =
                    [@ EXCEPT !.pc = "ka_store", !.acc = item[i].accessCount]]
        /\ UNCHANGED <<clock, budget, items, nItems, itemReaders, tableLock,
                       cleanupInterval, cleanupTimer, timers, loadData,
                       addedItem, aboutToDeleteItem, fate, registryVars>>

\* the store of item.accessCount++; item.Unlock(); return r, nil
KeepAliveStore(t) ==
    LET i == th[t].item
    IN  /\ th[t].pc = "ka_store"
        /\ item' = [item EXCEPT ![i].accessCount = th[t].acc + 1]
        /\ hist' = [hist EXCEPT ![i].hits = @ + 1]
        /\ th' = [th EXCEPT ![t] =
                    Finish(@, [item |-> i, err |-> ErrNil, ok |-> TRUE])]
        /\ UNCHANGED <<clock, budget, items, nItems, itemReaders, tableLock,
                       cleanupInterval, cleanupTimer, timers, loadData,
                       addedItem, aboutToDeleteItem, fate, registryVars>>

\* Exists, under the read lock
Exists(t, k) ==
    /\ Ready(t)
    /\ tableLock = Free
    /\ budget' = budget - 1
    /\ th' = [th EXCEPT ![t] =
                Finish([Idle EXCEPT !.op = "Exists", !.key = k],
                       [item |-> NoItem, err |-> ErrNil, ok |-> KeyPresent(k)])]
    /\ UNCHANGED <<clock, tableVars, registryVars>>

\* len(table.items)
TableLen == Cardinality({k \in DOMAIN items : KeyPresent(k)})

\* Count, under the read lock
Count(t) ==
    /\ Ready(t)
    /\ tableLock = Free
    /\ budget' = budget - 1
    /\ th' = [th EXCEPT ![t] =
                [Finish([Idle EXCEPT !.op = "Count"], NoRet)
                    EXCEPT !.count = TableLen]]
    /\ UNCHANGED <<clock, tableVars, registryVars>>

\* the miss: loadData(key, args...) returns an item for the key
LoaderReturnsItem(t, d) ==
    /\ th[t].pc = "val_load"
    /\ th' = [th EXCEPT ![t] =
                [@ EXCEPT !.pc = "val_add", !.loaded = LoadedItem, !.d = d]]
    /\ UNCHANGED <<clock, budget, tableVars, registryVars>>

\* the miss: loadData(key, args...) returns nil
LoaderReturnsNil(t) ==
    /\ th[t].pc = "val_load"
    /\ th' = [th EXCEPT ![t] =
                Finish(@, [item |-> NoItem, err |-> ValueMissErr(TRUE),
                           ok |-> FALSE])]
    /\ UNCHANGED <<clock, budget, tableVars, registryVars>>

\* table.Add(item.key, item.lifeSpan, item.data) of the loaded item
ValueAdd(t) ==
    /\ th[t].pc = "val_add"
    /\ UNCHANGED budget
    /\ Insert(t, th[t], th[t].key, th[t].d)

\* ------------------------------------------------------ MostAccessed
\* a CacheItemList sorted the other way round
LessAscending(a, b) == a.AccessCount < b.AccessCount

\* CacheItemList.Less
Less(a, b) == a.AccessCount > b.AccessCount

\* the orders in which a range over table.items can produce the keys in S
RangeOrders(S) ==
    {o \in [1..Cardinality(S) -> S] :
        \A i, j \in 1..Cardinality(S) : o[i] = o[j] => i = j}

\* p[i] = CacheItemPair{Key: k, AccessCount: v.accessCount}
CacheItemList(order) ==
    [i \in 1..Len(order) |->
        [Key |-> order[i], AccessCount |-> item[items[order[i]]].accessCount]]

\* sort.Sort on a short slice is an insertion sort: x moves left while
\* Less(x, the element before it)
RECURSIVE SortInsert(_, _)
SortInsert(q, x) ==
    IF q = <<>> THEN <<x>>
    ELSE IF Less(x, q[Len(q)])
         THEN SortInsert(SubSeq(q, 1, Len(q) - 1), x) \o <<q[Len(q)]>>
         ELSE q \o <<x>>

RECURSIVE SortList(_)
SortList(p) ==
    IF p = <<>> THEN <<>>
    ELSE SortInsert(SortList(SubSeq(p, 1, Len(p) - 1)), p[Len(p)])

\* for _, v := range p: stop at c >= count, append the item found under v.Key
RECURSIVE TakeItems(_, _, _)
TakeItems(p, c, count) ==
    IF p = <<>> \/ c >= count THEN <<>>
    ELSE (IF KeyPresent(Head(p).Key) THEN <<items[Head(p).Key]>> ELSE <<>>)
         \o TakeItems(Tail(p), c + 1, count)

\* MostAccessed(count), under the read lock, the range producing `order`
MostAccessed(t, count, order) ==
    /\ Ready(t)
    /\ tableLock = Free
    /\ budget' = budget - 1
    /\ th' = [th EXCEPT ![t] =
                [Finish([Idle EXCEPT !.op = "MostAccessed"], NoRet)
                    EXCEPT !.count = count,
                           !.list = TakeItems(SortList(CacheItemList(order)),
                                              0, count)]]
    /\ UNCHANGED <<clock, tableVars, registryVars>>

\* SetXCallback: drop the callbacks there are, if any, then append f
SetCallback(list, f) == Append(IF Len(list) > 0 THEN <<>> ELSE list, f)

\* Set...Callback and AddAboutToExpireCallback step by step.  The list a
\* call works on: table.addedItem, table.aboutToDeleteItem, or the
\* aboutToExpire of item tg
AddedItemList == 0 - 1
AboutToDeleteItemList == 0 - 2

ListOf(tg) ==
    CASE tg = AddedItemList -> addedItem
      [] tg = AboutToDeleteItemList -> aboutToDeleteItem
      [] OTHER -> item[tg].aboutToExpire

WriteList(tg, v) ==
    /\ addedItem' = IF tg = AddedItemList THEN v ELSE addedItem
    /\ aboutToDeleteItem' = IF tg = AboutToDeleteItemList THEN v
                            ELSE aboutToDeleteItem
    /\ item' = IF tg \in ItemIds
               THEN [item EXCEPT ![tg].aboutToExpire = v] ELSE item

\* Lock() of the mutex that guards the list
CanLockList(tg) == IF tg \in ItemIds THEN CanLockItem(tg) ELSE tableLock = Free

\* if len(list) > 0, read without a lock
SetSeesCallbacks(tg) == Len(ListOf(tg)) > 0

\* Set...Callback(f) is called: the test of len(list)
SetStart(t, tg, f) ==
    /\ Ready(t)
    /\ budget' = budget - 1
    /\ th' = [th EXCEPT ![t] =
                [Idle EXCEPT !.op = "Set", !.tg = tg, !.f = f,
                             !.pc = IF SetSeesCallbacks(tg) THEN "set_rm"
                                    ELSE "set_app"]]
    /\ hist' = IF tg \in ItemIds THEN [hist EXCEPT ![tg].sets = @ + 1]
               ELSE hist
    /\ UNCHANGED <<clock, items, item, nItems, itemReaders, tableLock,
                   cleanupInterval, cleanupTimer, timers, loadData,
                   addedItem, aboutToDeleteItem, fate, registryVars>>

\* Remove...Callback(s): Lock, list = nil, Unlock
SetRemove(t) ==
    /\ th[t].pc = "set_rm"
    /\ CanLockList(th[t].tg)
    /\ WriteList(th[t].tg, <<>>)
    /\ th' = [th EXCEPT ![t] = [@ EXCEPT !.pc = "set_app"]]
    /\ UNCHANGED <<clock, budget, items, nItems, itemReaders, tableLock,
                   cleanupInterval, cleanupTimer, timers, loadData, hist,
                   fate, registryVars>>

\* Lock, list = append(list, f), Unlock, return
SetAppend(t) ==
    /\ th[t].pc = "set_app"
    /\ CanLockList(th[t].tg)
    /\ WriteList(th[t].tg, Append(ListOf(th[t].tg), th[t].f))
    /\ th' = [th EXCEPT ![t] = Finish(@, NoRet)]
    /\ UNCHANGED <<clock, budget, items, nItems, itemReaders, tableLock,
                   cleanupInterval, cleanupTimer, timers, loadData, hist,
                   fate, registryVars>>

\* AddAboutToExpireCallback(f) on item i: item.Lock(); item.Unlock()
AddAboutToExpireCallback(t, i, f) ==
    /\ Ready(t)
    /\ CanLockItem(i)
    /\ budget' = budget - 1
    /\ th' = [th EXCEPT ![t] =
                [Idle EXCEPT !.op = "AddAboutToExpireCallback", !.tg = i,
                             !.f = f, !.pc = "aae_read"]]
    /\ hist' = [hist EXCEPT ![i].adds = @ + 1]
    /\ UNCHANGED <<clock, items, item, nItems, itemReaders, tableLock,
                   cleanupInterval, cleanupTimer, timers, loadData,
                   addedItem, aboutToDeleteItem, fate, registryVars>>

\* append(item.aboutToExpire, f), with no lock held: the read of the slice
AppendRead(t) ==
    /\ th[t].pc = "aae_read"
    /\ th' = [th EXCEPT ![t] =
                [@ EXCEPT !.pc = "aae_write",
                          !.cbs = item[th[t].tg].aboutToExpire]]
    /\ UNCHANGED <<clock, budget, tableVars, registryVars>>

\* item.aboutToExpire = the slice read, with f appended; return
AppendWrite(t) ==
    /\ th[t].pc = "aae_write"
    /\ item' = [item EXCEPT ![th[t].tg].aboutToExpire =
                                Append(th[t].cbs, th[t].f)]
    /\ th' = [th EXCEPT ![t] = Finish(@, NoRet)]
    /\ UNCHANGED <<clock, budget, items, nItems, itemReaders, tableLock,
                   cleanupInterval, cleanupTimer, timers, loadData,
                   addedItem, aboutToDeleteItem, hist, fate, registryVars>>

\* the table is set up before it is used
SetDataLoader(t) ==
    /\ Setup
    /\ tableLock = Free
    /\ loadData' = TRUE
    /\ UNCHANGED <<clock, budget, items, item, nItems, itemReaders, tableLock,
                   cleanupInterval, cleanupTimer, timers, addedItem,
                   aboutToDeleteItem, hist, fate, th, registryVars>>

SetAddedItemCallback(t, f) ==
    /\ Setup
    /\ tableLock = Free
    /\ addedItem' = SetCallback(addedItem, f)
    /\ UNCHANGED <<clock, budget, items, item, nItems, itemReaders, tableLock,
                   cleanupInterval, cleanupTimer, timers, loadData,
                   aboutToDeleteItem, hist, fate, th, registryVars>>

SetAboutToDeleteItemCallback(t, f) ==
    /\ Setup
    /\ tableLock = Free
    /\ aboutToDeleteItem' = SetCallback(aboutToDeleteItem, f)
    /\ UNCHANGED <<clock, budget, items, item, nItems, itemReaders, tableLock,
                   cleanupInterval, cleanupTimer, timers, loadData,
                   addedItem, hist, fate, th, registryVars>>

\* the caller of Add sets a callback on the item Add returned
SetAboutToExpireCallback(t, f) ==
    LET i == th[t].ret.item
    IN  /\ th[t].pc = "done"
        /\ th[t].op = "Add"
        /\ CanLockItem(i)
        /\ item' = [item EXCEPT ![i].aboutToExpire = SetCallback(@, f)]
        /\ UNCHANGED <<clock, budget, items, nItems, itemReaders, tableLock,
                       cleanupInterval, cleanupTimer, timers, loadData,
                       addedItem, aboutToDeleteItem, hist, fate, th,
                       registryVars>>

\* the caller has its result and goes on
Return(t) ==
    /\ th[t].pc = "done"
    /\ th' = [th EXCEPT ![t] = Idle]
    /\ UNCHANGED <<clock, budget, tableVars, registryVars>>

Tick ==
    /\ clock < MaxTime
    /\ clock' = clock + 1
    /\ UNCHANGED <<budget, tableVars, th, registryVars>>

\* ------------------------------------------------------------ registry
RIdle == [pc |-> "idle", name |-> "none", t |-> NoTable]

\* a Cache(table) that creates the table without a second check
NoRecheck(n) == NoTable

\* t, ok = cache[table] under mutex.Lock(): the second check
Recheck(n) == cache[n]

\* Cache(table): mutex.RLock(), t, ok := cache[table], mutex.RUnlock()
CacheLookup(c, n) ==
    /\ rth[c].pc \in {"idle", "done"}
    /\ rth' = [rth EXCEPT ![c] =
                 [pc |-> IF cache[n] # NoTable THEN "done" ELSE "create",
                  name |-> n, t |-> cache[n]]]
    /\ UNCHANGED <<clock, budget, tableVars, th, cache, tables>>

\* if !ok: mutex.Lock(), the second check, the new CacheTable, mutex.Unlock()
CacheCreate(c) ==
    LET n == rth[c].name
        found == Recheck(n)
        new == Len(tables) + 1
    IN  /\ rth[c].pc = "create"
        /\ IF found # NoTable
           THEN /\ rth' = [rth EXCEPT ![c] = [@ EXCEPT !.pc = "done", !.t = found]]
                /\ UNCHANGED <<cache, tables>>
           ELSE /\ tables' = Append(tables, n)
                /\ cache' = [cache EXCEPT ![n] = new]
                /\ rth' = [rth EXCEPT ![c] = [@ EXCEPT !.pc = "done", !.t = new]]
        /\ UNCHANGED <<clock, budget, tableVars, th>>

\* --------------------------------------------------------- specifications
InitTable(n) ==
    /\ clock = 0
    /\ budget = n
    /\ items = [k \in Keys |-> NoItem]
    /\ item = [i \in ItemIds |-> NoCacheItem]
    /\ nItems = 0
    /\ itemReaders = [i \in ItemIds |-> {}]
    /\ tableLock = Free
    /\ cleanupInterval = 0
    /\ cleanupTimer = NoTimer
    /\ timers = [tm \in TimerIds |-> 0 - 1]
    /\ loadData = FALSE
    /\ addedItem = <<>>
    /\ aboutToDeleteItem = <<>>
    /\ th = [t \in Threads |-> Idle]
    /\ hist = [i \in ItemIds |->
                [add |-> 0, del |-> 0, exp |-> 0, hits |-> 0, sets |-> 0,
                 adds |-> 0, timely |-> FALSE]]
    /\ fate = [i \in ItemIds |-> "none"]

InitRegistry ==
    /\ cache = [n \in Names |-> NoTable]
    /\ tables = <<>>
    /\ rth = [c \in Threads |-> RIdle]

\* the expiration check, in whichever goroutine runs it, and the timer
Sweeping ==
    \/ \E t \in Threads : SweepStart(t)
    \/ \E t \in Threads, k \in Keys : SweepVisit(t, k)
    \/ \E t \in Threads : SweepFinish(t)
    \/ \E t \in Threads : DeleteRelock(t)
    \/ \E tm \in TimerIds, g \in Sweepers : TimerFires(tm, g)

\* Spec: every operation of a table, callbacks that do not call the table
Init == InitTable(MaxCalls) /\ InitRegistry

Next ==
    \/ \E t \in Users, k \in Keys, d \in LifeSpans : Add(t, k, d)
    \/ \E t \in Users, k \in Keys, d \in LifeSpans : NotFoundAdd(t, k, d)
    \/ \E t \in Users, k \in Keys : Value(t, k)
    \/ \E t \in Users : ValueKeepAlive(t)
    \/ \E t \in Users, d \in LifeSpans : LoaderReturnsItem(t, d)
    \/ \E t \in Users : LoaderReturnsNil(t)
    \/ \E t \in Users : ValueAdd(t)
    \/ \E t \in Users, k \in Keys : Delete(t, k)
    \/ \E t \in Users : Flush(t)
    \/ \E t \in Threads : CallbackReturns(t)
    \/ Sweeping
    \/ \E t \in Users : SetDataLoader(t)
    \/ \E t \in Users, f \in Callbacks : SetAddedItemCallback(t, f)
    \/ \E t \in Users, f \in Callbacks : SetAboutToDeleteItemCallback(t, f)
    \/ \E t \in Users, f \in Callbacks : SetAboutToExpireCallback(t, f)
    \/ \E t \in Users : Return(t)
    \/ Tick

Spec == Init /\ [][Next]_vars

\* SpecExpiry: one caller and the timer's goroutine, no callbacks
ExpiryCalls == 3
ExpiryUsers == {"u1"}

InitExpiry == InitTable(ExpiryCalls) /\ InitRegistry

NextExpiry ==
    \/ \E t \in ExpiryUsers, k \in Keys, d \in LifeSpans : Add(t, k, d)
    \/ \E t \in ExpiryUsers, k \in Keys, d \in LifeSpans : NotFoundAdd(t, k, d)
    \/ \E t \in ExpiryUsers, k \in Keys : Value(t, k)
    \/ \E t \in ExpiryUsers : ValueKeepAlive(t)
    \/ \E t \in ExpiryUsers, k \in Keys : Delete(t, k)
    \/ \E t \in ExpiryUsers : Return(t)
    \/ Sweeping
    \/ Tick

SpecExpiry == InitExpiry /\ [][NextExpiry]_vars

\* SpecReentrant: callbacks that call Value on the same table
ReentrantCalls == 2
ReentrantUsers == {"u1"}

InitReentrant == InitTable(ReentrantCalls) /\ InitRegistry

NextReentrant ==
    \/ \E t \in ReentrantUsers, k \in Keys, d \in LifeSpans : Add(t, k, d)
    \/ \E t \in ReentrantUsers, k \in Keys : Delete(t, k)
    \/ \E t \in Threads : CallbackReturns(t)
    \/ \E t \in Threads : CallbackCallsValue(t)
    \/ \E t \in Threads : CallbackKeepAlive(t)
    \/ Sweeping
    \/ \E t \in ReentrantUsers, f \in Callbacks : SetAddedItemCallback(t, f)
    \/ \E t \in ReentrantUsers, f \in Callbacks :
          SetAboutToDeleteItemCallback(t, f)
    \/ \E t \in ReentrantUsers, f \in Callbacks :
          SetAboutToExpireCallback(t, f)
    \/ \E t \in ReentrantUsers : Return(t)
    \/ Tick

SpecReentrant == InitReentrant /\ [][NextReentrant]_vars

\* SpecNFA: every caller calls NotFoundAdd once, all for the same key
NFAKey == "k1"

InitNFA == InitTable(Cardinality(Callers)) /\ InitRegistry

NextNFA ==
    \/ \E t \in Callers, d \in LifeSpans : NotFoundAdd(t, NFAKey, d)
    \/ \E t \in Threads : CallbackReturns(t)
    \/ Sweeping
    \/ \E t \in Callers, f \in Callbacks : SetAddedItemCallback(t, f)
    \/ Tick

SpecNFA == InitNFA /\ [][NextNFA]_vars

\* SpecRegistry: callers of Cache(name)
InitCallers == InitTable(0) /\ InitRegistry

NextRegistry ==
    \/ \E c \in Callers, n \in Names : CacheLookup(c, n)
    \/ \E c \in Callers : CacheCreate(c)

SpecRegistry == InitCallers /\ [][NextRegistry]_vars

\* SpecDelete: two callers add and delete, with aboutToDeleteItem callbacks;
\* the clock stands still, so that nothing expires
DeleteCalls == 3

InitDelete == InitTable(DeleteCalls) /\ InitRegistry

NextDelete ==
    \/ \E t \in Users, k \in Keys, d \in LifeSpans : Add(t, k, d)
    \/ \E t \in Users, k \in Keys : Delete(t, k)
    \/ \E t \in Users : DeleteRelock(t)
    \/ \E t \in Users : CallbackReturns(t)
    \/ \E t \in Users : SweepStart(t)
    \/ \E t \in Users, k \in Keys : SweepVisit(t, k)
    \/ \E t \in Users : SweepFinish(t)
    \/ \E t \in Users, f \in Callbacks : SetAboutToDeleteItemCallback(t, f)
    \/ \E t \in Users : Return(t)

SpecDelete == InitDelete /\ [][NextDelete]_vars

\* SpecAccess: two callers add, read and look at the table; KeepAlive runs
\* step by step
AccessCalls == 3
AccessArgs == 0..1

InitAccess == InitTable(AccessCalls) /\ InitRegistry

NextAccess ==
    \/ \E t \in Users, k \in Keys, d \in LifeSpans : Add(t, k, d)
    \/ \E t \in Users, k \in Keys : Value(t, k)
    \/ \E t \in Users : KeepAliveLock(t)
    \/ \E t \in Users : KeepAliveRead(t)
    \/ \E t \in Users : KeepAliveStore(t)
    \/ \E t \in Users, k \in Keys : Exists(t, k)
    \/ \E t \in Users : Count(t)
    \/ \E t \in Users, count \in AccessArgs,
           order \in RangeOrders({k \in Keys : KeyPresent(k)}) :
          MostAccessed(t, count, order)
    \/ \E t \in Users : Return(t)
    \/ Sweeping
    \/ Tick

SpecAccess == InitAccess /\ [][NextAccess]_vars

\* SpecCallbacks: two callers add and delete entries and change the
\* callback lists, step by step; the clock stands still
CallbackCalls == 4
Lists == {AddedItemList, AboutToDeleteItemList}
Allocated == 1..nItems

InitCallbacks == InitTable(CallbackCalls) /\ InitRegistry

NextCallbacks ==
    \/ \E t \in Users, k \in Keys, d \in LifeSpans : Add(t, k, d)
    \/ \E t \in Users, k \in Keys : Delete(t, k)
    \/ \E t \in Users : DeleteRelock(t)
    \/ \E t \in Users : CallbackReturns(t)
    \/ \E t \in Users : SweepStart(t)
    \/ \E t \in Users, k \in Keys : SweepVisit(t, k)
    \/ \E t \in Users : SweepFinish(t)
    \/ \E t \in Users, tg \in Lists \cup Allocated, f \in Fns :
          SetStart(t, tg, f)
    \/ \E t \in Users : SetRemove(t)
    \/ \E t \in Users : SetAppend(t)
    \/ \E t \in Users, i \in Allocated, f \in Fns :
          AddAboutToExpireCallback(t, i, f)
    \/ \E t \in Users : AppendRead(t)
    \/ \E t \in Users : AppendWrite(t)
    \/ \E t \in Users : Return(t)

SpecCallbacks == InitCallbacks /\ [][NextCallbacks]_vars

\* SpecRanking: MostAccessed on a table at rest that holds up to three
\* entries, each accessed up to MaxCount times
RankKeys == Keys \cup {"k3"}
RankItem == [k \in RankKeys |-> CASE k = "k1" -> 1 [] k = "k2" -> 2 [] k = "k3" -> 3]
RankArgs == 0..(MaxItems + 1)
RankUsers == {"u1"}

InitRanking ==
    /\ clock = 0
    /\ budget = 1
    /\ \E S \in SUBSET RankKeys :
          /\ items = [k \in RankKeys |-> IF k \in S THEN RankItem[k] ELSE NoItem]
          /\ fate = [i \in ItemIds |->
                       IF \E k \in S : RankItem[k] = i THEN "stored"
                       ELSE IF \E k \in RankKeys : RankItem[k] = i
                            THEN "deleted" ELSE "none"]
    /\ \E n \in [RankKeys -> 0..MaxCount] :
          item = [i \in ItemIds |->
                    IF \E k \in RankKeys : RankItem[k] = i
                    THEN LET k == CHOOSE k \in RankKeys : RankItem[k] = i
                         IN  [NewCacheItem(k, 0, 0) EXCEPT !.accessCount = n[k]]
                    ELSE NoCacheItem]
    /\ nItems = Cardinality(RankKeys)
    /\ itemReaders = [i \in ItemIds |-> {}]
    /\ tableLock = Free
    /\ cleanupInterval = 0
    /\ cleanupTimer = NoTimer
    /\ timers = [tm \in TimerIds |-> 0 - 1]
    /\ loadData = FALSE
    /\ addedItem = <<>>
    /\ aboutToDeleteItem = <<>>
    /\ th = [t \in Threads |-> Idle]
    /\ hist = [i \in ItemIds |->
                [add |-> 0, del |-> 0, exp |-> 0, hits |-> 0, sets |-> 0,
                 adds |-> 0, timely |-> FALSE]]
    /\ InitRegistry

NextRanking ==
    \/ \E t \in RankUsers, count \in RankArgs,
           order \in RangeOrders({k \in RankKeys : KeyPresent(k)}) :
          MostAccessed(t, count, order)
    \/ \E t \in RankUsers : Return(t)

SpecRanking == InitRanking /\ [][NextRanking]_vars

\* ----------------------------------------------------------------- claims
\* no goroutine is inside an operation, none waits to run, no timer is armed
Quiescent ==
    /\ \A t \in Threads : th[t].pc \in {"idle", "done"}
    /\ \A tm \in TimerIds : ~Armed(tm)

NeverAccessed(i) == item[i].accessCount = 0

\* the sweep removes item i from the table in this step
SweptNow(i) == fate[i] = "stored" /\ fate'[i] = "swept"

\* C1 (as claimed): an entry added with lifeSpan d > 0 at time t and never
\* accessed afterwards is in the table at every time < t+d, and the sweep
\* removes it afterwards: it is not removed by a sweep before t+d, and it is
\* not left in the table, its lifeSpan exceeded, with no sweep under way and
\* no timer armed.
C1_ExpiryCorrect ==
    /\ [][\A i \in ItemIds :
            (SweptNow(i) /\ NeverAccessed(i))
                => clock >= item[i].accessedOn + item[i].lifeSpan]_vars
    /\ [](\A i \in ItemIds :
            (fate[i] = "stored" /\ item[i].lifeSpan > 0 /\ NeverAccessed(i)
                /\ Quiescent)
                => clock - item[i].accessedOn <= item[i].lifeSpan)

\* C2 (as claimed): the expiration sweep never removes from the table an
\* entry stored with lifeSpan 0.
C2_ZeroLifeSpanNeverSwept ==
    \A i \in ItemIds : fate[i] = "swept" => item[i].lifeSpan # 0

\* Value(key) hits and its KeepAlive returns in this step, for item i
ValueHitNow(t, i) ==
    th[t].pc = "val_ka" /\ th[t].item = i /\ th'[t].pc = "done"

\* C3 (as claimed): a Value hit at time a sets the entry's accessedOn to a,
\* and once Value has hit an entry with lifeSpan d > 0 before d had elapsed,
\* no sweep removes that entry at a time < a + d.
C3_KeepAliveExtendsLife ==
    [][/\ \A t \in Threads, i \in ItemIds :
            ValueHitNow(t, i) => item'[i].accessedOn = clock
       /\ \A i \in ItemIds :
            (SweptNow(i) /\ item[i].lifeSpan > 0 /\ hist[i].timely)
                => clock >= item[i].accessedOn + item[i].lifeSpan]_vars

\* the callers of NotFoundAdd whose call inserted its item
Winners ==
    {t \in Callers : th[t].op = "NotFoundAdd"
                     /\ (th[t].pc = "done" => th[t].ret.ok)}

\* the callers of NotFoundAdd whose call found the key
Losers ==
    {t \in Callers : th[t].op = "NotFoundAdd" /\ th[t].pc = "done"
                     /\ ~th[t].ret.ok}

\* no sweep has deleted an entry
NothingDeleted == \A i \in ItemIds : fate[i] \in {"none", "stored", "replaced"}

\* C4: of the calls of NotFoundAdd for one key that was absent, as long as
\* nothing deletes the key: exactly one inserts its item and returns true,
\* the others return false and insert nothing, and the table holds that one
\* item under the key.
C4_NotFoundAddAtomic ==
    (NothingDeleted /\ Winners \cup Losers # {}) =>
        /\ Cardinality(Winners) = 1
        /\ nItems = 1
        /\ items[NFAKey] = 1
        /\ \A t \in Winners :
              th[t].pc # "done" =>
                  (th[t].item = 1 /\ item[1].lifeSpan = th[t].d)

\* C4 witness: all three calls have returned, two of them false
C4_Witness ==
    /\ NothingDeleted
    /\ Cardinality(Losers) = 2
    /\ \E t \in Winners : th[t].pc = "done"

\* C5 (as claimed): whenever Delete or the sweep invokes an
\* aboutToDeleteItem or aboutToExpire callback for an entry that no Flush
\* has removed, the entry's key is still in the table (Exists returns true
\* for it).
C5_DeleteCallbacksBeforeInvisible ==
    [][\A i \in ItemIds :
          (/\ hist'[i].del > hist[i].del \/ hist'[i].exp > hist[i].exp
           /\ fate[i] # "flushed")
              => KeyPresent(item[i].key)]_vars

\* goroutine t is running a loader or a callback
RunsUserCode(t) == InCallback(th[t]) \/ th[t].pc \in {"val_load", "cb_ka"}

\* C6: a goroutine that runs a loader, an addedItem, an aboutToDeleteItem or
\* an aboutToExpire callback does not hold the table's write lock.
C6_NoCallbackUnderLock ==
    \A t \in Threads : RunsUserCode(t) => tableLock # t

\* C6 witness: the sweep's deleteInternal runs an aboutToExpire callback
\* while another goroutine is in an addedItem callback
C6_Witness ==
    \E t, u \in Threads :
        /\ th[t].pc = "del_exp" /\ th[t].insweep
        /\ th[u].pc = "add_cb"

\* goroutine t waits for the write lock of an item it holds the read lock of
SelfBlocked(t) == th[t].pc = "cb_ka" /\ t \in itemReaders[th[t].nest]

\* C7 (as claimed): a callback that calls Value for the key of its item
\* returns: no goroutine is left waiting for an item lock that only it can
\* release.
C7_ReentrantCallbackReturns ==
    \A t \in Threads : ~SelfBlocked(t)

\* the callers that Cache(name) has returned a table to
Returned == {c \in Callers : rth[c].pc = "done"}

\* C8: the table of a name is created at most once; every call of Cache(name)
\* returns the table registered under the name, which was created for that
\* name, so calls with one name return one table and calls with two names
\* return two.
C8_RegistrySingleton ==
    /\ \A i, j \in DOMAIN tables : tables[i] = tables[j] => i = j
    /\ \A n \in Names : cache[n] # NoTable =>
          (cache[n] \in DOMAIN tables /\ tables[cache[n]] = n)
    /\ \A c \in Returned :
          rth[c].t # NoTable /\ rth[c].t = cache[rth[c].name]
    /\ \A c, e \in Returned :
          (rth[c].name = rth[e].name) <=> (rth[c].t = rth[e].t)

\* C8 witness: two callers missed the same name in the first check; one has
\* created the table and returned, the other is still to take the lock, and
\* a third caller has the table of the other name
C8_Witness ==
    \E c, e, g \in Callers :
        /\ rth[c].pc = "done" /\ rth[e].pc = "create"
        /\ rth[e].name = rth[c].name /\ rth[e].t = NoTable
        /\ rth[g].pc = "done" /\ rth[g].name # rth[c].name

\* Flush returns in this step, called by goroutine t
FlushNow(t) == th[t].pc = "idle" /\ th'[t].pc = "done" /\ th'[t].op = "Flush"

\* C9 (as claimed): when Flush returns the table is empty, cleanupInterval
\* is 0 and no timer is armed; and no aboutToDeleteItem or aboutToExpire
\* callback is invoked, then or later, for an entry that Flush removed.
C9_FlushSilent ==
    [][/\ \A t \in Threads :
            FlushNow(t) =>
                /\ \A k \in Keys : items'[k] = NoItem
                /\ cleanupInterval' = 0
                /\ \A tm \in TimerIds : timers'[tm] < 0
       /\ \A i \in ItemIds :
            fate'[i] = "flushed" =>
                (hist'[i].del = hist[i].del /\ hist'[i].exp = hist[i].exp)]_vars

\* Delete(k) is called by goroutine t for a key that is not in the table
DeleteAbsentNow(t) ==
    /\ th[t].pc = "idle" /\ th'[t].op = "Delete"
    /\ ~KeyPresent(th'[t].key)

\* C10: Delete(key) for a key that is not in the table returns
\* ErrKeyNotFound and no item, invokes no callback, leaves table.items,
\* cleanupInterval and the timers as they were, and leaves the table's lock
\* released.
C10_DeleteAbsent ==
    [][\A t \in Threads :
          DeleteAbsentNow(t) =>
              /\ th'[t].pc = "done"
              /\ th'[t].ret = [item |-> NoItem, err |-> ErrKeyNotFound,
                               ok |-> FALSE]
              /\ UNCHANGED <<items, item, hist, fate, cleanupInterval,
                             cleanupTimer, timers>>
              /\ tableLock' = Free]_vars

\* C10 witness: Delete has returned ErrKeyNotFound for a key while the table
\* held another key and its timer was armed
C10_Witness ==
    \E t \in Threads :
        /\ th[t].pc = "done" /\ th[t].op = "Delete"
        /\ th[t].ret.err = ErrKeyNotFound
        /\ ~KeyPresent(th[t].key)
        /\ \E k \in Keys : KeyPresent(k)
        /\ cleanupTimer # NoTimer /\ Armed(cleanupTimer)

\* Value(k) is called by goroutine t for a key that is not in the table
ValueMissNow(t) ==
    /\ th[t].pc = "idle" /\ th'[t].op = "Value"
    /\ ~KeyPresent(th'[t].key)

\* the loader that Value(k) called for goroutine t returns nil in this step
LoaderNilNow(t) == th[t].pc = "val_load" /\ th'[t].pc = "done"

\* what the table holds, and what the callbacks have seen
Store == <<items, item, nItems, hist, fate>>

\* C11: Value(key) for a key that is not in the table returns
\* ErrKeyNotFound and no item when no loader is set; with a loader it calls
\* the loader, and when the loader returns nil, Value returns
\* ErrKeyNotFoundOrLoadable and no item; neither step changes the table.
C11_ValueMissErrors ==
    [][\A t \in Threads :
          /\ ValueMissNow(t) =>
                /\ UNCHANGED Store
                /\ IF loadData
                   THEN th'[t].pc = "val_load"
                   ELSE /\ th'[t].pc = "done"
                        /\ th'[t].ret = [item |-> NoItem,
                                         err |-> ErrKeyNotFound, ok |-> FALSE]
          /\ LoaderNilNow(t) =>
                /\ UNCHANGED Store
                /\ th'[t].ret = [item |-> NoItem,
                                 err |-> ErrKeyNotFoundOrLoadable,
                                 ok |-> FALSE]]_vars

\* C11 witness: with a loader set, Value has returned
\* ErrKeyNotFoundOrLoadable for a key while the table held another key
C11_Witness ==
    \E t \in Threads :
        /\ th[t].pc = "done" /\ th[t].op = "Value"
        /\ th[t].ret.err = ErrKeyNotFoundOrLoadable
        /\ loadData
        /\ ~KeyPresent(th[t].key)
        /\ \E k \in Keys : KeyPresent(k)

\* Value returns in this step the item its loader gave it, after table.Add
ValueLoadedNow(t) ==
    /\ th[t].op = "Value" /\ th[t].loaded = LoadedItem
    /\ th[t].pc # "done" /\ th'[t].pc = "done"

\* C12 (as claimed): when Value(key) misses and the loader returns an item,
\* the item Value returns is the item that its Add stored in the table
\* under the key.
C12_LoadedItemIsStored ==
    [][\A t \in Threads :
          ValueLoadedNow(t) => th'[t].ret.item = th[t].item]_vars

\* the entries in the table
Live == {items[k] : k \in {k \in DOMAIN items : KeyPresent(k)}}

Min(a, b) == IF a < b THEN a ELSE b

\* C13: on a table at rest with n entries, MostAccessed(count) returns
\* min(count, n) entries, each of them an entry of the table and no two the
\* same, in non-increasing order of accessCount, and no entry left out has
\* a larger accessCount than an entry returned.
C13_MostAccessedRanking ==
    \A t \in Threads :
        (th[t].pc = "done" /\ th[t].op = "MostAccessed") =>
            LET r == th[t].list
                got == {r[i] : i \in 1..Len(r)}
            IN  /\ Len(r) = Min(th[t].count, Cardinality(Live))
                /\ got \subseteq Live
                /\ Cardinality(got) = Len(r)
                /\ \A i, j \in 1..Len(r) :
                      i < j => item[r[i]].accessCount >= item[r[j]].accessCount
                /\ \A i \in got, o \in Live \ got :
                      item[i].accessCount >= item[o].accessCount

\* C13 witness: MostAccessed(2) has returned two of three entries whose
\* accessCounts all differ, the least accessed one under key k1
C13_Witness ==
    \E t \in Threads :
        /\ th[t].pc = "done" /\ th[t].op = "MostAccessed"
        /\ th[t].count = 2 /\ Len(th[t].list) = 2
        /\ Cardinality(Live) = 3
        /\ item[1].accessCount < item[2].accessCount
        /\ item[2].accessCount < item[3].accessCount

\* the timers that are armed
ArmedTimers == {tm \in TimerIds : Armed(tm)}

\* C14 (as claimed): at most one timer of the table is armed at any time.
C14_SingleArmedTimer == Cardinality(ArmedTimers) <= 1

\* the expiration check of goroutine t completes in this step
SweepDoneNow(t) == th[t].insweep /\ ~th'[t].insweep

\* the entries in the table that have a lifeSpan
Expiring == {i \in Live : item[i].lifeSpan > 0}

\* C15 (as claimed): when an expiration check that read the time `now`
\* completes, the table holds no entry that was expired at `now`;
\* cleanupInterval is the smallest remaining time, at `now`, of the entries
\* with a lifeSpan, and 0 only if there is no such entry; and the
\* table's timer is armed exactly when cleanupInterval is not 0.
C15_SweepRescheduling ==
    [][\A t \in Threads :
          SweepDoneNow(t) =>
              LET now == th[t].now
              IN  /\ \A i \in Expiring' : ~Expired(now, item'[i])
                  /\ \A i \in Expiring' :
                        cleanupInterval' <= Remaining(now, item'[i])
                  /\ Expiring' # {} =>
                        \E i \in Expiring' :
                            cleanupInterval' = Remaining(now, item'[i])
                  /\ (cleanupInterval' = 0) <=> (Expiring' = {})
                  /\ (cleanupInterval' # 0) <=> (ArmedTimers' # {})]_vars

\* the callers whose Delete has returned item i without error
Deleters(i) ==
    {t \in Threads : th[t].pc = "done" /\ th[t].op = "Delete"
                     /\ th[t].ret.err = ErrNil /\ th[t].ret.item = i}

\* C16 (as claimed): of the calls of Delete for the key of an entry, at most
\* one returns the entry without error, and each aboutToDeleteItem callback
\* is invoked at most once for the entry.
C16_ConcurrentDeletes ==
    \A i \in ItemIds :
        /\ Cardinality(Deleters(i)) <= 1
        /\ hist[i].del <= Len(aboutToDeleteItem)

\* deleteInternal, called by goroutine t, removes its key in this step
RemovesNow(t) ==
    /\ th[t].pc = "del_relock" /\ th'[t].pc # "del_relock"
    /\ KeyPresent(th[t].dkey)

\* C17 (as claimed): when deleteInternal removes a key from the table, the
\* entry under the key is the entry r that it looked up before its
\* callbacks.
C17_RemovesLookedUpEntry ==
    [][\A t \in Threads : RemovesNow(t) => items[th[t].dkey] = th[t].r]_vars

\* goroutine t calls Exists, Count or MostAccessed in this step
LooksNow(t) ==
    th[t].pc = "idle" /\ th'[t].op \in {"Exists", "Count", "MostAccessed"}

\* C18: the accessCount of an entry is the number of Value hits on it that
\* have completed (0 at first, one more with each hit, none lost), it never
\* decreases, and Exists, Count and MostAccessed change neither accessCount
\* nor accessedOn.
C18_AccessCounting ==
    /\ [](\A i \in ItemIds : item[i].accessCount = hist[i].hits)
    /\ [][/\ \A i \in ItemIds : item'[i].accessCount >= item[i].accessCount
          /\ \A t \in Threads : LooksNow(t) => item' = item]_vars

\* C18 witness: two goroutines have each completed a Value call that hit
\* the same entry
C18_Witness ==
    \E t, u \in Threads, i \in ItemIds :
        /\ t # u
        /\ th[t].pc = "done" /\ th[t].op = "Value" /\ th[t].ret.item = i
        /\ th[u].pc = "done" /\ th[u].op = "Value" /\ th[u].ret.item = i
        /\ hist[i].hits = 2

\* the Set...Callback that goroutine t called returns in this step
SetReturnsNow(t) == th[t].pc = "set_app" /\ th'[t].pc = "done"

\* no AddAboutToExpireCallback has been called for the list
NoAddCalls(tg) == tg \in ItemIds => hist[tg].adds = 0

\* C19 (as claimed): when a Set...Callback(f) returns, and no
\* Add...Callback has been called for the list, the list holds exactly one
\* callback, f or the callback of another Set call.
C19_SetReplacesList ==
    [][\A t \in Threads, tg \in Lists \cup ItemIds :
          (SetReturnsNow(t) /\ th[t].tg = tg /\ NoAddCalls(tg)) =>
              /\ Len(ListOf(tg)') = 1
              /\ ListOf(tg)'[1] \in Fns]_vars

\* goroutine t is inside a call that changes the aboutToExpire of item i
Changing(t, i) ==
    th[t].tg = i /\ th[t].pc \in {"set_rm", "set_app", "aae_read", "aae_write"}

\* C20 (as claimed): an append of AddAboutToExpireCallback never happens
\* while a goroutine holds the item's lock to read the list, and once the n
\* calls of AddAboutToExpireCallback for an item have returned (no Set
\* call having been made for it), its aboutToExpire holds n callbacks.
C20_AppendUnderLock ==
    \A i \in ItemIds :
        /\ \A t \in Threads :
              (th[t].pc = "aae_write" /\ th[t].tg = i) => itemReaders[i] = {}
        /\ (hist[i].sets = 0 /\ \A t \in Threads : ~Changing(t, i))
              => Len(item[i].aboutToExpire) = hist[i].adds

====
